---- MODULE Spec2Model ----
(***************************************************************************)
(* Model of changelog_util.py: the section segmenter, the version          *)
(* promoter (bump_version), the combiner (combine_files) and the file      *)
(* handling of the three commands.                                         *)
(*                                                                         *)
(* A line of text is a sequence of tokens.  A token stands for a piece of  *)
(* text that the program's regular expressions and string operations      *)
(* treat as a unit; it is a record [k, a, b]:                              *)
(*   k = "ws"    one whitespace character, a = <<its code>>                *)
(*   k = "hash"  a maximal run of a[1] '#' characters                      *)
(*   k = "uh"    the text  ## [Unreleased]                                 *)
(*   k = "hd"    the text  ## [<a>] - <b>                                  *)
(*   k = "kl"    the text  [Keep a Changelog]                              *)
(*   k = "ul"    the text  [unreleased]: <github_compare><a>...dev         *)
(*   k = "vl"    the text  [<a>]: <github_compare><b>...v<a>               *)
(*   k = "nc"    text whose lower case is "no changes" (a[1]: spelling)    *)
(*   k = "tx"    other text without '#', whitespace or "no changes"        *)
(* a and b are strings given as sequences of character codes.              *)
(***************************************************************************)
EXTENDS Integers, Sequences, FiniteSets, TLC

VARIABLES
    cmd,             \* the operation this run performs
    pc,              \* "start" before the operation, "done" after it
    changelog_text,  \* argument of _get_changelog_sections
    sections,        \* its return value
    source_text,     \* bump_version: lines read from the source
    version,         \* bump_version: version argument
    label,           \* bump_version: label argument
    unreleased,      \* bump_version / combine_files: unreleased flag
    output,          \* bump_version / combine_files: list of lines written
    json_data,       \* combine_files: <<[label, lines]>> per input file
    all_files,       \* combine_files: <<[label, sections]>> per input file
    marked,          \* combine_files: output, each line with its origin
    fs,              \* file system: path -> [exists, text]
    fs0,             \* the file system when the command was invoked
    argv,            \* arguments of the command run against the file system
    result           \* what the command returned ("0", "1", "None", "raise")

vars == <<cmd, pc, changelog_text, sections, source_text, version, label,
          unreleased, output, json_data, all_files, marked, fs, fs0, argv,
          result>>

-----------------------------------------------------------------------------
(* Bounds *)

MaxLen == 3        \* lines of a document given to the segmenter
MaxSrcLen == 4     \* lines of a source given to the promoter
MaxFirstLen == 4   \* lines of the first changelog given to the combiner
MaxOtherLen == 2   \* lines of the second changelog given to the combiner
MaxFileLen == 2    \* lines of a file in the file-system runs

SeqsUpTo(S, n) == UNION {[1..k -> S] : k \in 0..n}

-----------------------------------------------------------------------------
(* Strings as character codes *)

IsDigit(c) == c \in 48..57
Dash == 45

V9 == <<57, 46, 48, 46, 48>>                            \* "9.0.0"
V10 == <<49, 48, 46, 48, 46, 48>>                       \* "10.0.0"
Date == <<50, 48, 50, 48, 45, 48, 49, 45, 48, 49>>      \* "2020-01-01"
Rc == <<114, 99>>                                       \* "rc"
OldFrag == <<118, 48, 46, 57, 46, 48>>                  \* "v0.9.0"

(* Tokens *)
Tok(k, a, b) == [k |-> k, a |-> a, b |-> b]
WS == Tok("ws", <<32>>, <<>>)
NL == Tok("ws", <<10>>, <<>>)
Hash(n) == Tok("hash", <<n>>, <<>>)
UH == Tok("uh", <<>>, <<>>)
Heading(ver, lab) == Tok("hd", ver, lab)
KL == Tok("kl", <<>>, <<>>)
UnrelLink(frag) == Tok("ul", frag, <<>>)
VerLink(ver, frag) == Tok("vl", ver, frag)
NoCh(i) == Tok("nc", <<i>>, <<>>)
Text(i) == Tok("tx", <<i>>, <<>>)

Blank == <<>>

-----------------------------------------------------------------------------
(* Regular expressions; re.match anchors at the start of the line only *)

\* [0-9]*.[0-9]*.[0-9]* consuming all of s: two arbitrary characters, the
\* rest digits
MatchesVersionGroup(s) ==
    \E i, j \in 1..Len(s) :
        /\ i < j
        /\ \A p \in 1..Len(s) : p \notin {i, j} => IsDigit(s[p])

\* [0-9]*-[0-9]*-[0-9]* matching a prefix of s
MatchesDatePrefix(s) ==
    \E i, j \in 1..Len(s) :
        /\ i < j
        /\ s[i] = Dash
        /\ s[j] = Dash
        /\ \A p \in 1..(j - 1) : p # i => IsDigit(s[p])

\* v.[0-9]*.[0-9]*.[0-9]* consuming all of s
MatchesFragGroup(s) ==
    /\ Len(s) >= 4
    /\ s[1] = 118
    /\ MatchesVersionGroup(SubSeq(s, 3, Len(s)))

re_unreleased_header(line) ==
    /\ Len(line) > 0
    /\ line[1].k = "uh"

re_number_heading(line) ==
    /\ Len(line) > 0
    /\ line[1].k = "hd"
    /\ MatchesVersionGroup(line[1].a)
    /\ MatchesDatePrefix(line[1].b)

re_links_start(line) ==
    /\ Len(line) > 0
    /\ line[1].k = "kl"

re_unreleased_link(line) ==
    /\ Len(line) > 0
    /\ line[1].k = "ul"
    /\ MatchesFragGroup(line[1].a)

\* group(1) of either match
Group1(line) == line[1].a

-----------------------------------------------------------------------------
(* Section keys: the three fixed names, or the version text of a heading *)

Key(t, v) == [t |-> t, v |-> v]
TopKey == Key("top", <<>>)
UnreleasedKey == Key("unreleased", <<>>)
BottomKey == Key("bottom", <<>>)
VerKey(v) == Key("ver", v)

Section(name, data) == [name |-> name, data |-> data]

\* one iteration of the loop of _get_changelog_sections;
\* st = [sections, section, section_data]
SegStepDropsHeading(st, line) ==
    IF re_unreleased_header(line)
    THEN [sections |-> Append(st.sections, Section(st.section, st.section_data)),
          section |-> UnreleasedKey, section_data |-> <<>>]
    ELSE IF re_number_heading(line)
    THEN [sections |-> Append(st.sections, Section(st.section, st.section_data)),
          section |-> VerKey(Group1(line)), section_data |-> <<>>]
    ELSE IF re_links_start(line)
    THEN [sections |-> Append(st.sections, Section(st.section, st.section_data)),
          section |-> BottomKey, section_data |-> <<>>]
    ELSE [st EXCEPT !.section_data = Append(@, line)]

SegStepKeepsKey(st, line) ==
    LET closed == IF re_unreleased_header(line)
                  THEN [sections |-> Append(st.sections, Section(st.section, st.section_data)),
                        section |-> UnreleasedKey, section_data |-> <<>>]
                  ELSE IF re_number_heading(line)
                  THEN [sections |-> Append(st.sections, Section(st.section, st.section_data)),
                        section |-> st.section, section_data |-> <<>>]
                  ELSE IF re_links_start(line)
                  THEN [sections |-> Append(st.sections, Section(st.section, st.section_data)),
                        section |-> BottomKey, section_data |-> <<>>]
                  ELSE st
    IN [closed EXCEPT !.section_data = Append(@, line)]

SegStep(st, line) ==
    LET closed == IF re_unreleased_header(line)
                  THEN [sections |-> Append(st.sections, Section(st.section, st.section_data)),
                        section |-> UnreleasedKey, section_data |-> <<>>]
                  ELSE IF re_number_heading(line)
                  THEN [sections |-> Append(st.sections, Section(st.section, st.section_data)),
                        section |-> VerKey(Group1(line)), section_data |-> <<>>]
                  ELSE IF re_links_start(line)
                  THEN [sections |-> Append(st.sections, Section(st.section, st.section_data)),
                        section |-> BottomKey, section_data |-> <<>>]
                  ELSE st
    IN [closed EXCEPT !.section_data = Append(@, line)]

RECURSIVE SegLoop(_, _, _)
SegLoop(text, i, st) ==
    IF i > Len(text) THEN st
    ELSE SegLoop(text, i + 1, SegStep(st, text[i]))

get_changelog_sections_no_flush(text) ==
    SegLoop(text, 1, [sections |-> <<>>, section |-> TopKey, section_data |-> <<>>]).sections

get_changelog_sections(text) ==
    LET st == SegLoop(text, 1, [sections |-> <<>>, section |-> TopKey, section_data |-> <<>>])
    IN Append(st.sections, Section(st.section, st.section_data))

-----------------------------------------------------------------------------
(* String operations *)

IsSpace(t) == t.k = "ws"

RECURSIVE LStrip(_)
LStrip(line) ==
    IF line = <<>> THEN <<>>
    ELSE IF IsSpace(Head(line)) THEN LStrip(Tail(line))
    ELSE line

RECURSIVE RStrip(_)
RStrip(line) ==
    IF line = <<>> THEN <<>>
    ELSE IF IsSpace(line[Len(line)]) THEN RStrip(SubSeq(line, 1, Len(line) - 1))
    ELSE line

\* str.strip()
Strip(line) == RStrip(LStrip(line))

\* str.replace("###", "####"): non-overlapping occurrences, left to right,
\* inside every run of '#'
ReplaceHashes(line) ==
    [i \in 1..Len(line) |->
        IF line[i].k = "hash"
        THEN Hash(4 * (line[i].a[1] \div 3) + (line[i].a[1] % 3))
        ELSE line[i]]

\* "no changes" in line.lower()
ContainsNoChanges(line) == \E i \in 1..Len(line) : line[i].k = "nc"

-----------------------------------------------------------------------------
(* _clean_extra_empty_lines *)

MAX_EMPTY_LINES == 3

\* one iteration of its loop; st = [output, clean_line_count]
CleanStepOffByOne(st, line, line_count) ==
    LET stripped == Strip(line)
        count == IF stripped = <<>> THEN st.clean_line_count + 1 ELSE 0
    IN [output |-> IF count <= line_count + 1 THEN Append(st.output, stripped) ELSE st.output,
        clean_line_count |-> count]

CleanStep(st, line, line_count) ==
    LET stripped == Strip(line)
        count == IF stripped = <<>> THEN st.clean_line_count + 1 ELSE 0
    IN [output |-> IF count <= line_count THEN Append(st.output, stripped) ELSE st.output,
        clean_line_count |-> count]

RECURSIVE CleanLoop(_, _, _, _)
CleanLoop(text_lines, i, st, line_count) ==
    IF i > Len(text_lines) THEN st
    ELSE CleanLoop(text_lines, i + 1, CleanStep(st, text_lines[i], line_count), line_count)

clean_extra_empty_lines(text_lines, line_count) ==
    CleanLoop(text_lines, 1, [output |-> <<>>, clean_line_count |-> 0], line_count).output

-----------------------------------------------------------------------------
(* bump_version: the rewrite of the source lines *)

\* f"[unreleased]: {github_compare}v{version}...dev"
FreshLinkLine(ver) == <<UnrelLink(<<118>> \o ver)>>
\* f"[{version}]: {github_compare}{link_match.group(1)}...v{version}"
VersionLinkLine(ver, frag) == <<VerLink(ver, frag)>>
\* f"## [{version}] - {label}"
VersionHeadingLine(ver, lab) == <<Heading(ver, lab)>>
\* ["\n", "No changes.", "\n", "\n", "\n"]
Placeholder == << <<NL>>, <<NoCh(1)>>, <<NL>>, <<NL>>, <<NL>> >>

\* what one source line appends to the output
BumpLine(line, ver, unrel, lab) ==
    IF re_unreleased_link(line)
    THEN (IF unrel THEN <<FreshLinkLine(ver)>> ELSE <<>>)
         \o <<VersionLinkLine(ver, Group1(line))>>
    ELSE IF re_unreleased_header(line)
    THEN (IF unrel THEN <<line>> \o Placeholder ELSE <<>>)
         \o <<VersionHeadingLine(ver, lab)>>
    ELSE <<line>>

RECURSIVE BumpLoop(_, _, _, _, _, _)
BumpLoop(text, i, out, ver, unrel, lab) ==
    IF i > Len(text) THEN out
    ELSE BumpLoop(text, i + 1, out \o BumpLine(text[i], ver, unrel, lab), ver, unrel, lab)

BumpOutput(text, ver, unrel, lab) ==
    clean_extra_empty_lines(BumpLoop(text, 1, <<>>, ver, unrel, lab), MAX_EMPTY_LINES)

-----------------------------------------------------------------------------
(* _section_has_changes *)

\* section_data[1:]
Rest(section_data) == IF section_data = <<>> THEN <<>> ELSE Tail(section_data)

NonEmptyLines(section_data) ==
    LET stripped == [i \in 1..Len(Rest(section_data)) |-> Strip(Rest(section_data)[i])]
        NotEmpty(l) == l # <<>>
    IN SelectSeq(stripped, NotEmpty)

section_has_changes_ignores_placeholder(section_data) ==
    Len(NonEmptyLines(section_data)) # 0

section_has_changes(section_data) ==
    LET non_empty_lines == NonEmptyLines(section_data)
    IN IF Len(non_empty_lines) = 0 THEN FALSE
       ELSE IF Len(non_empty_lines) = 1 /\ ContainsNoChanges(non_empty_lines[1]) THEN FALSE
       ELSE TRUE

-----------------------------------------------------------------------------
(* combine_files: the merge of the segmented changelogs *)

\* Python's order on str: by code point, a proper prefix first
RECURSIVE StrLess(_, _)
StrLess(s, t) ==
    IF t = <<>> THEN FALSE
    ELSE IF s = <<>> THEN TRUE
    ELSE IF Head(s) # Head(t) THEN Head(s) < Head(t)
    ELSE StrLess(Tail(s), Tail(t))

\* sorted(list(section_set), reverse=True)
RECURSIVE SortedReverse(_)
SortedReverse(S) ==
    IF S = {} THEN <<>>
    ELSE LET m == CHOOSE x \in S : \A y \in S \ {x} : StrLess(y, x)
         IN <<m>> \o SortedReverse(S \ {m})

\* all_files: per input file, [label, sections]
AllFiles(data) ==
    [f \in 1..Len(data) |->
        [label |-> data[f].label, sections |-> get_changelog_sections(data[f].lines)]]

\* section_set: every section name of every input, then
\* difference_update({"top", "unreleased", "bottom"})
SectionSet(af) ==
    UNION {{af[f].sections[s].name : s \in 1..Len(af[f].sections)} :
            f \in 1..Len(af)}
    \ {TopKey, UnreleasedKey, BottomKey}

ToKeys(vs) == [i \in 1..Len(vs) |-> VerKey(vs[i])]

SectionList(af, unrel) ==
    LET section_list == ToKeys(SortedReverse({k.v : k \in SectionSet(af)}))
    IN IF unrel THEN <<UnreleasedKey>> \o section_list ELSE section_list

\* a line of the output with its origin: tag, input file, section index
Item(tag, f, s, line) == [tag |-> tag, file |-> f, sec |-> s, line |-> line]
Items(tag, f, s, lines) == [i \in 1..Len(lines) |-> Item(tag, f, s, lines[i])]

\* f"### {label}"
LabelLine(lbl) == <<Hash(3), WS, Text(lbl)>>

BodyLines(section_data) ==
    LET cleaned == clean_extra_empty_lines(Rest(section_data), 1)
    IN [i \in 1..Len(cleaned) |-> ReplaceHashes(cleaned[i])]

\* body of the innermost loop for one section of file f that has the name;
\* st = [output, first_line]
MergeStepHeadingEveryTime(st, f, s, lbl, section_data) ==
    LET withHead == st.output \o <<Item("head", f, s, section_data[1])>>
    IN [output |-> IF section_has_changes(section_data)
                   THEN withHead \o <<Item("sep", f, s, Blank), Item("label", f, s, LabelLine(lbl))>>
                        \o Items("body", f, s, BodyLines(section_data))
                   ELSE withHead,
        first_line |-> TRUE]

MergeStep(st, f, s, lbl, section_data) ==
    LET withHead == IF ~st.first_line
                    THEN st.output \o <<Item("head", f, s, section_data[1])>>
                    ELSE st.output
    IN [output |-> IF section_has_changes(section_data)
                   THEN withHead \o <<Item("sep", f, s, Blank), Item("label", f, s, LabelLine(lbl))>>
                        \o Items("body", f, s, BodyLines(section_data))
                   ELSE withHead,
        first_line |-> TRUE]

\* for name, section_data in [(nm, sd) for nm, sd in sections if nm == section_name]
RECURSIVE SectionsLoop(_, _, _, _, _)
SectionsLoop(af, section_name, f, s, st) ==
    IF s > Len(af[f].sections) THEN st
    ELSE SectionsLoop(af, section_name, f, s + 1,
            IF af[f].sections[s].name = section_name
            THEN MergeStep(st, f, s, af[f].label, af[f].sections[s].data)
            ELSE st)

\* for label, sections in all_files
RECURSIVE FilesLoop(_, _, _, _)
FilesLoop(af, section_name, f, st) ==
    IF f > Len(af) THEN st
    ELSE FilesLoop(af, section_name, f + 1,
            SectionsLoop(af, section_name, f, 1, st))

\* for section_name in section_list
RECURSIVE NamesLoop(_, _, _, _)
NamesLoop(af, section_list, n, out) ==
    IF n > Len(section_list) THEN out
    ELSE NamesLoop(af, section_list, n + 1,
            FilesLoop(af, section_list[n], 1,
                      [output |-> out, first_line |-> FALSE]).output)

\* the lines of the "top" section of the first file
TopItems(af) ==
    LET secs == af[1].sections
        s == CHOOSE i \in 1..Len(secs) :
                /\ secs[i].name = TopKey
                /\ \A j \in 1..(i - 1) : secs[j].name # TopKey
    IN Items("top", 1, s, secs[s].data)

\* the lines of the "bottom" sections of the first file
RECURSIVE BottomItems(_, _, _)
BottomItems(af, unrel, s) ==
    IF s > Len(af[1].sections) THEN <<>>
    ELSE LET sec == af[1].sections[s]
             Kept(line) == ~(~unrel /\ re_unreleased_link(line))
         IN (IF sec.name = BottomKey
             THEN Items("bottom", 1, s, SelectSeq(sec.data, Kept))
             ELSE <<>>)
            \o BottomItems(af, unrel, s + 1)

\* lines 189-224 of combine_files, for the already read files
CombineMarked(data, unrel) ==
    LET af == AllFiles(data)
    IN NamesLoop(af, SectionList(af, unrel), 1, TopItems(af))
       \o BottomItems(af, unrel, 1)

LinesOf(items) == [i \in 1..Len(items) |-> items[i].line]

-----------------------------------------------------------------------------
(* Files: the text of a file is kept as text.split("\n"), never empty *)

Paths == {"a.md", "b.md", "out.md"}

File(text) == [exists |-> TRUE, text |-> text]
Missing == [exists |-> FALSE, text |-> <<>>]

\* "\n".join(lines)
Join(lines) == IF lines = <<>> THEN <<Blank>> ELSE lines

\* str.splitlines(): a final line break opens no further line
SplitLines(text) ==
    IF text[Len(text)] = Blank THEN SubSeq(text, 1, Len(text) - 1) ELSE text

\* the JSON file: missing, malformed, or an array of [label, path]
Json(state, data) == [state |-> state, data |-> data]
Entry(lbl, path) == [label |-> lbl, path |-> path]

Outcome(files, res) == [fs |-> files, result |-> res]

\* bump_version, lines 277-300
bump_version(files, source, target, overwrite, ver, unrel, lab) ==
    IF ~files[source].exists THEN Outcome(files, "raise")
    ELSE IF files[target].exists /\ ~overwrite THEN Outcome(files, "1")
    ELSE Outcome([files EXCEPT ![target] =
                    File(Join(BumpOutput(SplitLines(files[source].text), ver, unrel, lab)))],
                 "0")

\* the loop of version_files; an exception of bump_version ends it
RECURSIVE VersionFilesLoop(_, _, _, _, _, _)
VersionFilesLoop(files, data, i, ver, unrel, lab) ==
    IF i > Len(data) THEN Outcome(files, "None")
    ELSE LET r == bump_version(files, data[i].path, data[i].path, TRUE, ver, unrel, lab)
         IN IF r.result = "raise" THEN r
            ELSE VersionFilesLoop(r.fs, data, i + 1, ver, unrel, lab)

version_files(files, json, ver, unrel, lab) ==
    IF json.state # "ok" THEN Outcome(files, "raise")
    ELSE VersionFilesLoop(files, json.data, 1, ver, unrel, lab)

\* combine_files
combine_files(files, json, target, overwrite, unrel) ==
    IF json.state # "ok" THEN Outcome(files, "raise")
    ELSE IF \E i \in 1..Len(json.data) : ~files[json.data[i].path].exists
    THEN Outcome(files, "raise")
    ELSE IF json.data = <<>> THEN Outcome(files, "raise")
    ELSE IF files[target].exists /\ ~overwrite THEN Outcome(files, "1")
    ELSE LET data == [i \in 1..Len(json.data) |->
                        [label |-> json.data[i].label,
                         lines |-> SplitLines(files[json.data[i].path].text)]]
         IN Outcome([files EXCEPT ![target] =
                        File(Join(LinesOf(CombineMarked(data, unrel))))],
                    "0")

\* the status the process exits with: sys.exit(main())
ExitStatus(res) == IF res \in {"0", "None"} THEN 0 ELSE 1

-----------------------------------------------------------------------------
(* Inputs *)

LabelA == 11
LabelB == 12

SegPool ==
    { Blank, <<Text(1)>>, <<UH>>, <<WS, UH>>, <<KL, Text(1)>>,
      <<Heading(V9, Date)>>, <<Heading(V10, Date)>>, <<Heading(V9, Rc)>> }

BumpPool ==
    { Blank, <<WS>>, <<Text(1)>>, <<WS, Text(1), WS>>, <<UH>>, <<WS, UH>>,
      <<UnrelLink(OldFrag)>> }

CombPool ==
    { Blank, <<Text(1)>>, <<Heading(V9, Date)>>, <<Heading(V10, Date)>> }

LinkPool ==
    { <<UH>>, <<Hash(3), WS, Text(2)>>, <<KL>>, <<UnrelLink(OldFrag)>> }

OtherPool ==
    { <<WS, Text(1)>>, <<NoCh(2)>>, <<Heading(V9, Date)>> }

FilePool == { Blank, <<Text(1)>>, <<UH>> }

FirstDocs == SeqsUpTo(CombPool, MaxFirstLen) \cup SeqsUpTo(LinkPool, MaxFirstLen)
OtherDocs == SeqsUpTo(OtherPool, MaxOtherLen)
FileTexts == SeqsUpTo(FilePool, MaxFileLen) \ {<<>>}

JsonFiles ==
    { Json("missing", <<>>), Json("malformed", <<>>), Json("ok", <<>>),
      Json("ok", <<Entry(LabelA, "a.md")>>),
      Json("ok", <<Entry(LabelA, "a.md"), Entry(LabelB, "b.md")>>),
      Json("ok", <<Entry(LabelB, "b.md"), Entry(LabelA, "a.md")>>) }

Args(command, source, target, overwrite, json) ==
    [command |-> command, source |-> source, target |-> target,
     overwrite |-> overwrite, files |-> json]
NoArgs == Args("", "", "", FALSE, Json("missing", <<>>))
NoFiles == [p \in Paths |-> Missing]

-----------------------------------------------------------------------------
(* Specifications *)

InitSegment ==
    /\ cmd = "segment" /\ pc = "start"
    /\ changelog_text \in SeqsUpTo(SegPool, MaxLen)
    /\ sections = <<>>
    /\ source_text = <<>> /\ version = <<>> /\ label = <<>>
    /\ unreleased = FALSE /\ output = <<>>
    /\ json_data = <<>> /\ all_files = <<>> /\ marked = <<>>
    /\ fs = NoFiles /\ fs0 = NoFiles /\ argv = NoArgs /\ result = ""

InitBump ==
    /\ cmd = "bump" /\ pc = "start"
    /\ changelog_text = <<>> /\ sections = <<>>
    /\ source_text \in SeqsUpTo(BumpPool, MaxSrcLen)
    /\ version \in {V9, V10}
    /\ label \in {Date, Rc}
    /\ unreleased \in BOOLEAN
    /\ output = <<>>
    /\ json_data = <<>> /\ all_files = <<>> /\ marked = <<>>
    /\ fs = NoFiles /\ fs0 = NoFiles /\ argv = NoArgs /\ result = ""

InitCombine ==
    /\ cmd = "combine" /\ pc = "start"
    /\ changelog_text = <<>> /\ sections = <<>>
    /\ source_text = <<>> /\ version = <<>> /\ label = <<>>
    /\ unreleased \in BOOLEAN
    /\ output = <<>>
    /\ \E first \in FirstDocs :
          \/ json_data = <<[label |-> LabelA, lines |-> first]>>
          \/ \E other \in OtherDocs :
                json_data = <<[label |-> LabelA, lines |-> first],
                              [label |-> LabelB, lines |-> other]>>
    /\ all_files = <<>> /\ marked = <<>>
    /\ fs = NoFiles /\ fs0 = NoFiles /\ argv = NoArgs /\ result = ""

InitFiles ==
    /\ cmd = "files" /\ pc = "start"
    /\ changelog_text = <<>> /\ sections = <<>>
    /\ source_text = <<>>
    /\ version = V10 /\ label = Date
    /\ unreleased \in BOOLEAN
    /\ output = <<>>
    /\ json_data = <<>> /\ all_files = <<>> /\ marked = <<>>
    /\ \E a, b \in {File(t) : t \in FileTexts} \cup {Missing},
          o \in {Missing, File(<<  <<Text(2)>> >>)} :
          fs = [p \in Paths |-> IF p = "a.md" THEN a ELSE IF p = "b.md" THEN b ELSE o]
    /\ fs0 = fs
    /\ \/ \E src \in {"a.md", "b.md"}, tgt \in {"a.md", "out.md"}, ow \in BOOLEAN :
             argv = Args("version", src, tgt, ow, Json("missing", <<>>))
       \/ \E j \in JsonFiles : argv = Args("version-files", "", "", FALSE, j)
       \/ \E j \in JsonFiles, ow \in BOOLEAN : argv = Args("combine", "", "out.md", ow, j)
    /\ result = ""

\* _get_changelog_sections(changelog_text)
Segment ==
    /\ cmd = "segment" /\ pc = "start"
    /\ sections' = get_changelog_sections(changelog_text)
    /\ pc' = "done"
    /\ UNCHANGED <<cmd, changelog_text, source_text, version, label, unreleased,
                   output, json_data, all_files, marked, fs, fs0, argv, result>>

\* bump_version, lines 283-298, on the lines of the source
Bump ==
    /\ cmd = "bump" /\ pc = "start"
    /\ output' = BumpOutput(source_text, version, unreleased, label)
    /\ pc' = "done"
    /\ UNCHANGED <<cmd, changelog_text, sections, source_text, version, label,
                   unreleased, json_data, all_files, marked, fs, fs0, argv, result>>

\* combine_files, lines 189-224, on the lines of the inputs
Combine ==
    /\ cmd = "combine" /\ pc = "start"
    /\ all_files' = AllFiles(json_data)
    /\ marked' = CombineMarked(json_data, unreleased)
    /\ output' = LinesOf(marked')
    /\ pc' = "done"
    /\ UNCHANGED <<cmd, changelog_text, sections, source_text, version, label,
                   unreleased, json_data, fs, fs0, argv, result>>

Finish(r) ==
    /\ fs' = r.fs
    /\ result' = r.result
    /\ pc' = "done"
    /\ UNCHANGED <<cmd, changelog_text, sections, source_text, version, label,
                   unreleased, output, json_data, all_files, marked, fs0, argv>>

\* the command "version"
RunBumpVersion ==
    /\ cmd = "files" /\ pc = "start" /\ argv.command = "version"
    /\ Finish(bump_version(fs, argv.source, argv.target, argv.overwrite,
                           version, unreleased, label))

\* the command "version-files"
RunVersionFiles ==
    /\ cmd = "files" /\ pc = "start" /\ argv.command = "version-files"
    /\ Finish(version_files(fs, argv.files, version, unreleased, label))

\* the command "combine"
RunCombineFiles ==
    /\ cmd = "files" /\ pc = "start" /\ argv.command = "combine"
    /\ Finish(combine_files(fs, argv.files, argv.target, argv.overwrite, unreleased))

NextSegment == Segment
NextBump == Bump
NextCombine == Combine
NextFiles == RunBumpVersion \/ RunVersionFiles \/ RunCombineFiles
NextText == Bump \/ Combine

SpecSegment == InitSegment /\ [][NextSegment]_vars
SpecBump == InitBump /\ [][NextBump]_vars
SpecCombine == InitCombine /\ [][NextCombine]_vars
SpecFiles == InitFiles /\ [][NextFiles]_vars
SpecText == (InitBump \/ InitCombine) /\ [][NextText]_vars

Init == InitSegment \/ InitBump \/ InitCombine \/ InitFiles
Next == Segment \/ Bump \/ Combine \/ RunBumpVersion \/ RunVersionFiles \/ RunCombineFiles
Spec == Init /\ [][Next]_vars

-----------------------------------------------------------------------------
(* Properties of the segmenter *)

RECURSIVE ConcatData(_, _)
ConcatData(secs, i) ==
    IF i > Len(secs) THEN <<>> ELSE secs[i].data \o ConcatData(secs, i + 1)

Segmented == cmd = "segment" /\ pc = "done"

Count(secs, key) == Cardinality({i \in 1..Len(secs) : secs[i].name = key})

\* C1: the lines of the returned sections, concatenated in the order
\* returned, are exactly the input lines
C1_RoundTrip ==
    Segmented => ConcatData(sections, 1) = changelog_text

C1_Witness ==
    /\ Segmented
    /\ Len(sections) >= 3
    /\ \E i \in 1..Len(sections) : sections[i].name = UnreleasedKey
    /\ \E i \in 1..Len(sections) : Len(sections[i].data) >= 2

TopOnceFirst(secs) ==
    /\ Count(secs, TopKey) <= 1
    /\ \A i \in 1..Len(secs) : secs[i].name = TopKey => i = 1

BottomOnceLast(secs) ==
    /\ Count(secs, BottomKey) <= 1
    /\ \A i \in 1..Len(secs) : secs[i].name = BottomKey => i = Len(secs)

UnreleasedOnce(secs) == Count(secs, UnreleasedKey) <= 1

\* C9 as stated: for every input "top" occurs at most once and first,
\* "bottom" at most once and last, "unreleased" at most once
C9_AnyInput ==
    Segmented =>
        /\ TopOnceFirst(sections)
        /\ BottomOnceLast(sections)
        /\ UnreleasedOnce(sections)

LinksStartLines(text) == {i \in 1..Len(text) : re_links_start(text[i])}
UnreleasedLines(text) == {i \in 1..Len(text) : re_unreleased_header(text[i])}
HeadingLines(text) ==
    {i \in 1..Len(text) : re_unreleased_header(text[i]) \/ re_number_heading(text[i])}

\* C9 amended: "top" occurs at most once and first for every input;
\* "bottom" occurs at most once and last when the input has at most one
\* links-block start line and no heading line after it; "unreleased"
\* occurs at most once when the input has at most one Unreleased heading
C9_WellFormedInput ==
    Segmented =>
        /\ TopOnceFirst(sections)
        /\ (/\ Cardinality(LinksStartLines(changelog_text)) <= 1
            /\ \A l \in LinksStartLines(changelog_text) :
                  \A h \in HeadingLines(changelog_text) : h < l)
           => BottomOnceLast(sections)
        /\ Cardinality(UnreleasedLines(changelog_text)) <= 1
           => UnreleasedOnce(sections)

C9_Witness ==
    /\ Segmented
    /\ Count(sections, TopKey) = 1
    /\ Count(sections, UnreleasedKey) = 1
    /\ Count(sections, BottomKey) = 1
    /\ Len(sections) = 3

\* C10 as stated: an input without Unreleased heading and without
\* numbered heading gives the single section "top" with all its lines
C10_NoHeading ==
    (Segmented /\ HeadingLines(changelog_text) = {})
        => sections = <<Section(TopKey, changelog_text)>>

\* C10 amended: an input without Unreleased heading, without numbered
\* heading and without links-block start line gives the single section
\* "top" with all its lines
C10_NoHeadingNoLinks ==
    (/\ Segmented
     /\ HeadingLines(changelog_text) = {}
     /\ LinksStartLines(changelog_text) = {})
        => sections = <<Section(TopKey, changelog_text)>>

C10_Witness ==
    /\ Segmented
    /\ HeadingLines(changelog_text) = {}
    /\ LinksStartLines(changelog_text) = {}
    /\ Len(changelog_text) >= 2
    /\ \E i \in 1..Len(changelog_text) : changelog_text[i] = <<WS, UH>>
    /\ Len(sections) = 1

-----------------------------------------------------------------------------
(* Properties of the promoter *)

Bumped == cmd = "bump" /\ pc = "done"

RECURSIVE IsSubseq(_, _)
IsSubseq(xs, ys) ==
    IF xs = <<>> THEN TRUE
    ELSE IF ys = <<>> THEN FALSE
    ELSE IF Head(xs) = Head(ys) THEN IsSubseq(Tail(xs), Tail(ys))
    ELSE IsSubseq(xs, Tail(ys))

IsBlankLine(line) == \A i \in 1..Len(line) : IsSpace(line[i])

Rewritten(line) == re_unreleased_link(line) \/ re_unreleased_header(line)

\* the source lines that are neither rewritten nor blank
PassThroughLines(text) ==
    LET Passes(line) == ~Rewritten(line) /\ ~IsBlankLine(line)
    IN SelectSeq(text, Passes)

\* C2: every source line that is neither an Unreleased heading nor an
\* unreleased compare link, and is not blank, is in the output exactly as
\* it was, whitespace included, in the original order
C2_PassThrough ==
    Bumped => IsSubseq(PassThroughLines(source_text), output)

\* the line that replaces each rewritten source line when unreleased=false
Replacements(text, ver, lab) ==
    LET rewritten == SelectSeq(text, Rewritten)
    IN [i \in 1..Len(rewritten) |->
          IF re_unreleased_link(rewritten[i])
          THEN <<VerLink(ver, rewritten[i][1].a)>>
          ELSE <<Heading(ver, lab)>>]

\* C3: with unreleased=false the output has no Unreleased heading line
\* and no unreleased compare link line, and holds, in order, one
\* replacement line per Unreleased heading and per compare link of the
\* source
C3_NoUnreleasedLeft ==
    (Bumped /\ ~unreleased) =>
        /\ \A i \in 1..Len(output) :
              /\ ~re_unreleased_header(output[i])
              /\ ~re_unreleased_link(output[i])
        /\ IsSubseq(Replacements(source_text, version, label), output)
        /\ Len(output) <= Len(source_text)

-----------------------------------------------------------------------------
(* Blank-line bound *)

Combined == cmd = "combine" /\ pc = "done"

\* some run of n consecutive blank lines
HasBlankRun(lines, n) ==
    \E i \in 1..(Len(lines) - n + 1) :
        \A j \in i..(i + n - 1) : IsBlankLine(lines[j])

SameBlock(x, y) == x.tag = y.tag /\ x.file = y.file /\ x.sec = y.sec

\* C4: the output of bump_version has no run of more than 3 blank lines,
\* and in the output of combine_files the body under a label marker has
\* no run of more than 1 blank line
C4_BlankLineBound ==
    /\ Bumped => ~HasBlankRun(output, 4)
    /\ Combined =>
          \A i \in 1..(Len(marked) - 1) :
              (/\ marked[i].tag = "body"
               /\ SameBlock(marked[i], marked[i + 1])
               /\ IsBlankLine(marked[i].line))
              => ~IsBlankLine(marked[i + 1].line)

C4_Witness ==
    /\ Bumped
    /\ HasBlankRun(source_text, 4)
    /\ HasBlankRun(output, 3)

-----------------------------------------------------------------------------
(* Properties of the combiner *)

InputSections == all_files

\* the section an output line came from
SectionOf(item) == InputSections[item.file].sections[item.sec]

\* the names of the merged sections
MergedNames ==
    {k \in SectionSet(InputSections) \cup {UnreleasedKey} :
        k = UnreleasedKey => unreleased}

\* the lines after the heading that are not blank
BodyNonBlank(section_data) ==
    {i \in 2..Len(section_data) : ~IsBlankLine(section_data[i])}

NoChangesBody(section_data) ==
    \/ BodyNonBlank(section_data) = {}
    \/ /\ Cardinality(BodyNonBlank(section_data)) = 1
       /\ \A i \in BodyNonBlank(section_data) : ContainsNoChanges(section_data[i])

\* the positions of the output that section s of file f contributed under
\* a label marker
Contribution(f, s) ==
    {i \in 1..Len(marked) :
        /\ marked[i].file = f /\ marked[i].sec = s
        /\ marked[i].tag \in {"sep", "label", "body"}}

Contributes(f, s) ==
    \E i \in Contribution(f, s) :
        /\ i + 1 \in Contribution(f, s)
        /\ marked[i].tag = "sep" /\ marked[i].line = Blank
        /\ marked[i + 1].tag = "label"
        /\ marked[i + 1].line = LabelLine(json_data[f].label)
        /\ \A j \in Contribution(f, s) : j >= i /\ (j > i + 1 => marked[j].tag = "body")
        /\ \E j \in Contribution(f, s) : marked[j].tag = "body" /\ ~IsBlankLine(marked[j].line)
        /\ \A n \in BodyNonBlank(SectionOf(marked[i]).data) :
              \E j \in Contribution(f, s) :
                  marked[j].line = ReplaceHashes(Strip(SectionOf(marked[i]).data[n]))

\* C5: a section of a merged name whose body has no non-blank line, or a
\* single non-blank line containing "no changes" in any case, contributes
\* no blank line, no label marker and no body line; every other section of
\* a merged name contributes its label marker and its body
C5_NoChangesSuppressed ==
    Combined =>
        \A f \in 1..Len(InputSections) :
            \A s \in 1..Len(InputSections[f].sections) :
                InputSections[f].sections[s].name \in MergedNames =>
                    IF NoChangesBody(InputSections[f].sections[s].data)
                    THEN Contribution(f, s) = {}
                    ELSE Contributes(f, s)

C5_Witness ==
    /\ Combined
    /\ \E f \in 1..Len(InputSections) :
          \E s \in 1..Len(InputSections[f].sections) :
              /\ InputSections[f].sections[s].name \in MergedNames
              /\ Cardinality(BodyNonBlank(InputSections[f].sections[s].data)) = 1
              /\ NoChangesBody(InputSections[f].sections[s].data)
              /\ Contribution(f, s) = {}
    /\ \E i \in 1..Len(marked) : marked[i].tag = "label"

\* the positions of the merged sections' heading lines, in output order
HeadPositions == {i \in 1..Len(marked) : marked[i].tag = "head"}

\* a version text as the numbers between its dots
RECURSIVE ParseVersion(_, _, _)
ParseVersion(str, i, acc) ==
    IF i > Len(str) THEN <<acc>>
    ELSE IF IsDigit(str[i]) THEN ParseVersion(str, i + 1, 10 * acc + (str[i] - 48))
    ELSE <<acc>> \o ParseVersion(str, i + 1, 0)

RECURSIVE NumbersLess(_, _)
NumbersLess(xs, ys) ==
    IF ys = <<>> THEN FALSE
    ELSE IF xs = <<>> THEN TRUE
    ELSE IF Head(xs) # Head(ys) THEN Head(xs) < Head(ys)
    ELSE NumbersLess(Tail(xs), Tail(ys))

VersionLess(v, w) == NumbersLess(ParseVersion(v, 1, 0), ParseVersion(w, 1, 0))

\* every collected version is one merged section, Unreleased is there
\* only on request and then first
MergedOnce ==
    /\ \A k \in MergedNames :
          (\E f \in 1..Len(InputSections) :
              \E s \in 1..Len(InputSections[f].sections) :
                  InputSections[f].sections[s].name = k)
          => Cardinality({i \in HeadPositions : SectionOf(marked[i]).name = k}) = 1
    /\ \A i \in HeadPositions : SectionOf(marked[i]).name \in MergedNames
    /\ \A i, j \in HeadPositions :
          (SectionOf(marked[j]).name = UnreleasedKey /\ i # j) => j < i

\* C6: the merged versioned sections are in descending version order,
\* each collected version is exactly one merged section, and the
\* Unreleased section is first with unreleased=true and absent otherwise
C6_VersionOrder ==
    Combined =>
        /\ MergedOnce
        /\ \A i, j \in HeadPositions :
              (/\ i < j
               /\ SectionOf(marked[i]).name.t = "ver"
               /\ SectionOf(marked[j]).name.t = "ver")
              => VersionLess(SectionOf(marked[j]).name.v, SectionOf(marked[i]).name.v)

\* the heading line above position i of the output
HeadAbove(i) == CHOOSE h \in HeadPositions : h < i /\ \A g \in HeadPositions : g < i => g <= h

LabelPositions == {i \in 1..Len(marked) : marked[i].tag = "label"}

\* the first section with the name, in input order
IsFirstWithName(f, s) ==
    \A g \in 1..Len(InputSections) :
        \A r \in 1..Len(InputSections[g].sections) :
            InputSections[g].sections[r].name = InputSections[f].sections[s].name
            => (g > f \/ (g = f /\ r >= s))

\* C7: in every merged section the label blocks follow the section's one
\* heading line in the order of the input files, and that heading line is
\* the one of the first input that has the section
C7_LabelOrder ==
    Combined =>
        /\ \A i \in LabelPositions :
              /\ \E h \in HeadPositions : h < i
              /\ SectionOf(marked[HeadAbove(i)]).name = SectionOf(marked[i]).name
              /\ marked[i].line = LabelLine(json_data[marked[i].file].label)
        /\ \A i, j \in LabelPositions :
              (i < j /\ SectionOf(marked[i]).name = SectionOf(marked[j]).name)
              => marked[i].file <= marked[j].file
        /\ \A h, g \in HeadPositions :
              SectionOf(marked[h]).name = SectionOf(marked[g]).name => h = g
        /\ \A h \in HeadPositions :
              /\ IsFirstWithName(marked[h].file, marked[h].sec)
              /\ marked[h].line = SectionOf(marked[h]).data[1]

C7_Witness ==
    /\ Combined
    /\ \E i, j \in LabelPositions :
          /\ i < j
          /\ marked[i].file = 1 /\ marked[j].file = 2
          /\ SectionOf(marked[i]).name = SectionOf(marked[j]).name
          /\ HeadAbove(i) = HeadAbove(j)
          /\ marked[HeadAbove(i)].file = 1

-----------------------------------------------------------------------------
(* Properties of the commands *)

Ran == cmd = "files" /\ pc = "done"

\* what the destinations of the command hold when it succeeded
Written ==
    IF argv.command = "version"
    THEN fs = [fs0 EXCEPT ![argv.target] =
                 File(Join(BumpOutput(SplitLines(fs0[argv.source].text),
                                      version, unreleased, label)))]
    ELSE IF argv.command = "version-files"
    THEN \A i \in 1..Len(argv.files.data) :
            LET p == argv.files.data[i].path
            IN fs[p] = File(Join(BumpOutput(SplitLines(fs0[p].text),
                                            version, unreleased, label)))
    ELSE fs[argv.target].exists /\ fs[argv.target] # fs0[argv.target]

\* C8: a command either succeeds and its destinations hold the full
\* output, or fails with a non-zero status and no file was written
C8_NoPartialSuccess ==
    Ran =>
        \/ ExitStatus(result) = 0 /\ Written
        \/ ExitStatus(result) # 0 /\ fs = fs0

====
